---- MODULE Spec2Model ----
(***************************************************************************)
(* A model of target_game.py: the 3x3 letter grid, the dictionary filter   *)
(* get_words, the letter counter _get_letter_amounts, the guess input loop *)
(* get_user_words, the guess classifier get_pure_user_words and the report *)
(* written by results.                                                     *)
(*                                                                         *)
(* A word (a Python str) is a sequence of one-character strings; a text    *)
(* file is the sequence of characters read() returns.  Python's 0-based    *)
(* index k is the 1-based index k+1 here.                                  *)
(***************************************************************************)
EXTENDS Integers, Sequences, FiniteSets, TLC

VARIABLES
    pc,              \* position of the program
    grid,            \* main: the 3x3 grid (a sequence of three rows)
    file,            \* the text of the dictionary file "en"
    letters,         \* the letters argument of get_words / _get_letter_amounts
    words,           \* get_words: splitlines()[3:]
    widx,            \* get_words: position of the for loop over words
    valid_words,     \* get_words: valid_words
    letter_amounts,  \* get_words: letter_amounts (also the result of a lone call)
    middle_letter,   \* get_words: middle_letter
    words_from_dict, \* main: words_from_dict
    runs,            \* number of calls of get_words so far
    first_result,    \* what the first call of get_words returned
    typed,           \* the lines the user has entered on standard input
    eof,             \* the user has signalled end of input
    nread,           \* number of lines input() has returned
    user_words,      \* get_user_words: user_words
    report,          \* what results wrote to results.txt
    probe            \* the last word handed to the two word tests, and their answers

vars == <<pc, grid, file, letters, words, widx, valid_words, letter_amounts,
          middle_letter, words_from_dict, runs, first_result, typed, eof,
          nread, user_words, report, probe>>

----------------------------------------------------------------------------
(* Bounds of the model *)

\* longest word handed to the word tests on their own
MaxWordLen == 4
\* longest letter list handed to _get_letter_amounts on its own
MaxLetters == 9
\* most lines in the dictionary file
MaxLines == 5
\* most lines the user enters
MaxGuesses == 2

(* Numbers of the program *)

\* len(word) >= 4
MinWordLen == 4
\* splitlines()[3:]
HeaderLines == 3
\* letters[4], 1-based
MiddleIndex == 5
\* range(3) rows of range(3) letters
GridSide == 3

----------------------------------------------------------------------------
(* Sequences *)

Range(s) == {s[i] : i \in 1..Len(s)}

SeqsUpTo(S, n) == UNION {[1..k -> S] : k \in 0..n}

\* number of positions of s that hold c
Occ(c, s) == Cardinality({i \in 1..Len(s) : s[i] = c})

\* number of positions of s that hold a member of S
OccIn(S, s) == Cardinality({i \in 1..Len(s) : s[i] \in S})

RECURSIVE SumCounts(_)
SumCounts(pairs) ==
    IF pairs = <<>> THEN 0 ELSE pairs[1][2] + SumCounts(Tail(pairs))

----------------------------------------------------------------------------
(* Python built-ins the program uses *)

NL == "\n"
CR == "\r"
FF == "\f"

\* the characters at which str.splitlines() ends a line: \n, \r, \f, and,
\* written by their Python escapes, \v, the separators \x1c, \x1d, \x1e, the
\* next-line character \x85 and the Unicode line and paragraph separators
LineBoundaries ==
    {NL, CR, FF, "\\x0b", "\\x1c", "\\x1d", "\\x1e", "\\x85", "\\u2028", "\\u2029"}

\* str.splitlines(): a line ends at every line boundary, "\r\n" counting as
\* one; the boundaries are dropped; a final line without a boundary is kept
\* unless it is empty
RECURSIVE split_from(_, _, _, _)
split_from(text, i, cur, acc) ==
    IF i > Len(text)
    THEN IF cur = <<>> THEN acc ELSE Append(acc, cur)
    ELSE IF text[i] \in LineBoundaries
         THEN IF text[i] = CR /\ i < Len(text) /\ text[i + 1] = NL
              THEN split_from(text, i + 2, <<>>, Append(acc, cur))
              ELSE split_from(text, i + 1, <<>>, Append(acc, cur))
         ELSE split_from(text, i + 1, Append(cur, text[i]), acc)

\* text is what dictionary.read() returned
splitlines(text) == split_from(text, 1, <<>>, <<>>)

\* word.count(ch) for a one-character ch
str_count(word, ch) == Cardinality({k \in 1..Len(word) : word[k] = ch})

\* ch in word for a one-character ch
str_contains(word, ch) == \E k \in 1..Len(word) : word[k] = ch

\* [i for j in grid for i in j]
RECURSIVE flatten(_)
flatten(rows) == IF rows = <<>> THEN <<>> ELSE rows[1] \o flatten(Tail(rows))

----------------------------------------------------------------------------
(* _get_letter_amounts, lines 65-90 *)

\* the while loop of lines 83-87 for one letter: every entry that holds the
\* letter is incremented; the loop does not stop at the first one.  An entry
\* is [letter, count]; "letter in entry" compares the letter with both, and
\* a str never equals the int count.
RECURSIVE scan_amounts(_, _, _, _)
scan_amounts(letter, amounts, i, found) ==
    IF i > Len(amounts)
    THEN [amounts |-> amounts, found |-> found]
    ELSE IF letter = amounts[i][1]
         THEN scan_amounts(letter, [amounts EXCEPT ![i][2] = @ + 1], i + 1, TRUE)
         ELSE scan_amounts(letter, amounts, i + 1, found)

\* a for-loop body that appends a new entry for every letter, found or not
add_letter_always_append(letter, amounts) ==
    Append(scan_amounts(letter, amounts, 1, FALSE).amounts, <<letter, 1>>)

\* lines 81-89: the body of the for loop
add_letter(letter, amounts) ==
    LET r == scan_amounts(letter, amounts, 1, FALSE)
    IN  IF r.found THEN r.amounts ELSE Append(r.amounts, <<letter, 1>>)

RECURSIVE count_letters(_, _, _)
count_letters(ls, k, amounts) ==
    IF k > Len(ls) THEN amounts
    ELSE count_letters(ls, k + 1, add_letter(ls[k], amounts))

_get_letter_amounts(ls) == count_letters(ls, 1, <<>>)

(* _find_amount_by_letter, lines 93-112 *)
RECURSIVE find_from(_, _, _)
find_from(letter, letter_list, i) ==
    IF i > Len(letter_list) THEN 0
    ELSE IF letter_list[i][1] = letter THEN letter_list[i][2]
         ELSE find_from(letter, letter_list, i + 1)

_find_amount_by_letter(letter, letter_list) == find_from(letter, letter_list, 1)

----------------------------------------------------------------------------
(* The word test, written twice in the program *)

\* [i[0] for i in letter_amounts]
amount_letters(amounts) == {amounts[i][1] : i \in 1..Len(amounts)}

\* all(word.count(i) <= _find_amount_by_letter(i, letter_amounts) for i in word)
within_amounts(word, amounts) ==
    \A k \in 1..Len(word) :
        str_count(word, word[k]) <= _find_amount_by_letter(word[k], amounts)

\* a test that demands fewer occurrences than the grid holds
get_words_test_fewer(word, amounts, middle) ==
    IF /\ Len(word) >= MinWordLen
       /\ Range(word) \subseteq amount_letters(amounts)
       /\ \A k \in 1..Len(word) :
              str_count(word, word[k]) < _find_amount_by_letter(word[k], amounts)
       /\ str_contains(word, middle)
    THEN "accepted" ELSE "rejected"

\* a test that reads the amount of each character from a mapping keyed by the
\* grid's letters before anything else: a character that is no key raises
get_words_test_keyed(word, amounts, middle) ==
    IF \E k \in 1..Len(word) : word[k] \notin amount_letters(amounts)
    THEN "error"
    ELSE IF /\ within_amounts(word, amounts)
            /\ Len(word) >= MinWordLen
            /\ str_contains(word, middle)
         THEN "accepted" ELSE "rejected"

\* get_words, lines 52-60: the nested test of one word
get_words_test(word, amounts, middle) ==
    IF Len(word) >= MinWordLen /\ Range(word) \subseteq amount_letters(amounts)
    THEN IF within_amounts(word, amounts) /\ str_contains(word, middle)
         THEN "accepted" ELSE "rejected"
    ELSE "rejected"

\* a rule test that forgets the middle letter
rule_test_no_middle(word, amounts, middle) ==
    IF /\ Len(word) >= MinWordLen
       /\ Range(word) \subseteq amount_letters(amounts)
       /\ within_amounts(word, amounts)
    THEN "accepted" ELSE "rejected"

\* get_pure_user_words, lines 161-166: the first four conjuncts
rule_test(word, amounts, middle) ==
    IF /\ Len(word) >= MinWordLen
       /\ Range(word) \subseteq amount_letters(amounts)
       /\ within_amounts(word, amounts)
       /\ str_contains(word, middle)
    THEN "accepted" ELSE "rejected"

\* a classifier test that forgets the dictionary
user_words_test_no_dict(word, amounts, middle, dict) ==
    rule_test(word, amounts, middle)

\* get_pure_user_words, lines 160-168: the whole condition
user_words_test(word, amounts, middle, dict) ==
    LET t == rule_test(word, amounts, middle)
    IN  IF t = "accepted" /\ word \in Range(dict) THEN "rejected" ELSE t

----------------------------------------------------------------------------
(* get_words, lines 46-62 *)

\* a slice that leaves the third line in
skip_header_short(lines) == SubSeq(lines, HeaderLines, Len(lines))

\* line 47: [3:]
skip_header(lines) == SubSeq(lines, HeaderLines + 1, Len(lines))

\* the letters of ls with one occurrence of each character of word taken out
RECURSIVE take_out(_, _)
take_out(ls, word) ==
    IF word = <<>> THEN ls
    ELSE LET hits == {i \in 1..Len(ls) : ls[i] = word[1]}
         IN  IF hits = {} THEN take_out(ls, Tail(word))
             ELSE LET i == CHOOSE j \in hits : \A h \in hits : j <= h
                  IN  take_out(SubSeq(ls, 1, i - 1) \o SubSeq(ls, i + 1, Len(ls)),
                               Tail(word))

\* a loop body that uses up the letters of the words it accepts
get_words_body_consuming(word, vw, amounts, ls, middle) ==
    LET t == get_words_test(word, amounts, middle)
    IN  [valid_words    |-> IF t = "accepted" THEN Append(vw, word) ELSE vw,
         letter_amounts |-> amounts,
         letters        |-> IF t = "accepted" THEN take_out(ls, word) ELSE ls,
         raised         |-> t = "error"]

\* a loop body that collects the accepted words as a set
get_words_body_set(word, vw, amounts, ls, middle) ==
    LET t == get_words_test(word, amounts, middle)
    IN  [valid_words    |-> IF t = "accepted" /\ word \notin Range(vw)
                            THEN Append(vw, word) ELSE vw,
         letter_amounts |-> amounts,
         letters        |-> ls,
         raised         |-> t = "error"]

\* lines 52-61: the body of the for loop, as what it does to the objects in
\* its reach: it appends to valid_words and only reads the rest
get_words_body(word, vw, amounts, ls, middle) ==
    LET t == get_words_test(word, amounts, middle)
    IN  [valid_words    |-> IF t = "accepted" THEN Append(vw, word) ELSE vw,
         letter_amounts |-> amounts,
         letters        |-> ls,
         raised         |-> t = "error"]

----------------------------------------------------------------------------
(* get_user_words, lines 127-132 *)

\* an input loop that drops empty lines
input_append_nonempty(uw, line) == IF line = <<>> THEN uw ELSE Append(uw, line)

\* line 130: user_words.append(input(...))
input_append(uw, line) == Append(uw, line)

----------------------------------------------------------------------------
(* get_pure_user_words, lines 156-170 *)

RECURSIVE pure_from(_, _, _, _, _, _)
pure_from(uw, k, amounts, middle, dict, acc) ==
    IF k > Len(uw) THEN [raised |-> FALSE, value |-> acc]
    ELSE LET t == user_words_test(uw[k], amounts, middle, dict)
         IN  IF t = "error" THEN [raised |-> TRUE, value |-> acc]
             ELSE pure_from(uw, k + 1, amounts, middle, dict,
                            IF t = "accepted" THEN Append(acc, uw[k]) ELSE acc)

\* letters[4] raises IndexError on a list of fewer than five letters
get_pure_user_words(uw, ls, dict) ==
    IF Len(ls) < MiddleIndex THEN [raised |-> TRUE, value |-> <<>>]
    ELSE pure_from(uw, 1, _get_letter_amounts(ls), ls[MiddleIndex], dict, <<>>)

----------------------------------------------------------------------------
(* results, lines 188-217 *)

\* a count of the dictionary words that were guessed
correct_words_of_dict(uw, dict) ==
    Cardinality({i \in 1..Len(dict) : dict[i] \in Range(uw)})

\* line 206: sum(i in words_from_dict for i in user_words)
RECURSIVE correct_words(_, _)
correct_words(uw, dict) ==
    IF uw = <<>> THEN 0
    ELSE (IF uw[1] \in Range(dict) THEN 1 ELSE 0) + correct_words(Tail(uw), dict)

\* lines 212-214: the words of words_from_dict that are not in user_words
RECURSIVE forgotten_words(_, _)
forgotten_words(uw, dict) ==
    IF dict = <<>> THEN <<>>
    ELSE (IF dict[1] \notin Range(uw) THEN <<dict[1]>> ELSE <<>>)
         \o forgotten_words(uw, Tail(dict))

\* results.txt before results is called
NoReport == [written |-> FALSE]

\* results.txt after results: line 189 creates the file, line 196 calls
\* get_pure_user_words before the first write.  When that call raises, the
\* file stays empty: no count and no word is in it.  Otherwise the file
\* holds the sections of lines 203-217.
results_report(g, uw, dict) ==
    LET pure == get_pure_user_words(uw, flatten(g), dict)
    IN  IF pure.raised
        THEN [written |-> FALSE, raised |-> TRUE]
        ELSE [written   |-> TRUE,
              raised    |-> FALSE,
              correct   |-> correct_words(uw, dict),
              possible  |-> dict,
              forgotten |-> forgotten_words(uw, dict),
              unknown   |-> pure.value]

----------------------------------------------------------------------------
(* Inputs *)

stem  == <<"s", "t", "e", "m">>
ming  == <<"m", "i", "n", "g">>
tests == <<"t", "e", "s", "t", "s">>
xyz   == <<"x", "y", "z">>

\* outcomes of generate_grid the game is played on: the first has middle
\* letter m, the second middle letter t, the third a single s and a single t
SampleGrids ==
    { << <<"t", "e", "s">>, <<"t", "m", "i">>, <<"n", "g", "s">> >>,
      << <<"s", "t", "e">>, <<"m", "t", "i">>, <<"n", "g", "s">> >>,
      << <<"m", "e", "s">>, <<"x", "t", "y">>, <<"z", "i", "n">> >> }

\* lines of the header, lines after it, lines the user enters
HeaderVocabulary == {stem, xyz}
DictVocabulary   == {stem, ming, tests}
GuessVocabulary  == {stem, ming, <<>>}

FileLines ==
    {ls \in SeqsUpTo(HeaderVocabulary \cup DictVocabulary, MaxLines) :
        \A i \in 1..Len(ls) : i <= HeaderLines => ls[i] \in HeaderVocabulary}

\* the text of a file each of whose lines is followed by the characters end
RECURSIVE text_with(_, _)
text_with(ls, end) ==
    IF ls = <<>> THEN <<>> ELSE ls[1] \o end \o text_with(Tail(ls), end)

\* the text of a file whose lines all end in "\n"
text_of(ls) == text_with(ls, <<NL>>)

\* the same text without the "\n" of the last line
text_open(ls) == SubSeq(text_of(ls), 1, Len(text_of(ls)) - 1)

\* the files with exactly one line after the header
OneCandidate == {l \in FileLines : Len(l) = HeaderLines + 1}

\* every file with "\n" after each line; the short ones also without the
\* last "\n"; those with one candidate also with other line ends: a form
\* feed, a form feed and "\n" (an empty line after each line), and the
\* Unicode line separator.  open() in text mode turns "\r\n" and "\r" into
\* "\n", so read() returns no "\r"
Files ==
    {text_of(ls) : ls \in FileLines}
        \cup {text_open(ls) : ls \in {l \in FileLines : Len(l) <= HeaderLines + 1}}
        \cup {text_with(ls, <<FF>>) : ls \in OneCandidate}
        \cup {text_with(ls, <<FF, NL>>) : ls \in OneCandidate}
        \cup {text_with(ls, <<"\\u2028">>) : ls \in OneCandidate}

\* the letters and characters the word test is tried on by itself
Letters   == {"a", "b"}
WordChars == {"a", "b", "-"}
AllGrids  == [1..(GridSide * GridSide) -> Letters]
AllWords  == SeqsUpTo(WordChars, MaxWordLen)

\* the letters _get_letter_amounts is tried on by itself
CountLettersOf == {"a", "b", "c"}

NoProbe == [tested |-> FALSE]

----------------------------------------------------------------------------
(* The game: main, lines 239-244 *)

Init ==
    /\ pc = "start"
    /\ file \in Files
    /\ grid = <<>>
    /\ letters = <<>>
    /\ words = <<>>
    /\ widx = 0
    /\ valid_words = <<>>
    /\ letter_amounts = <<>>
    /\ middle_letter = ""
    /\ words_from_dict = <<>>
    /\ runs = 0
    /\ first_result = <<>>
    /\ typed = <<>>
    /\ eof = FALSE
    /\ nread = 0
    /\ user_words = <<>>
    /\ report = NoReport
    /\ probe = NoProbe

\* line 239 and the argument of line 242
GenerateGrid ==
    /\ pc = "start"
    /\ \E g \in SampleGrids :
          /\ Len(g) = GridSide
          /\ grid' = g
          /\ letters' = flatten(g)
    /\ pc' = "get_words"
    /\ UNCHANGED <<file, words, widx, valid_words, letter_amounts, middle_letter,
                   words_from_dict, runs, first_result, typed, eof, nread,
                   user_words, report, probe>>

\* lines 46-50; letters[4] raises IndexError on a list of fewer than five
GetWordsEnter ==
    /\ pc = "get_words"
    /\ words' = skip_header(splitlines(file))
    /\ valid_words' = <<>>
    /\ letter_amounts' = _get_letter_amounts(letters)
    /\ widx' = 1
    /\ runs' = runs + 1
    /\ IF Len(letters) < MiddleIndex
       THEN middle_letter' = "" /\ pc' = "error"
       ELSE middle_letter' = letters[MiddleIndex] /\ pc' = "get_words_loop"
    /\ UNCHANGED <<grid, file, letters, words_from_dict, first_result, typed,
                   eof, nread, user_words, report, probe>>

\* lines 51-61: one turn of the for loop
GetWordsStep ==
    /\ pc = "get_words_loop"
    /\ widx <= Len(words)
    /\ LET r == get_words_body(words[widx], valid_words, letter_amounts,
                               letters, middle_letter)
       IN  /\ valid_words' = r.valid_words
           /\ letter_amounts' = r.letter_amounts
           /\ letters' = r.letters
           /\ pc' = IF r.raised THEN "error" ELSE "get_words_loop"
    /\ widx' = widx + 1
    /\ UNCHANGED <<grid, file, words, middle_letter, words_from_dict, runs,
                   first_result, typed, eof, nread, user_words, report, probe>>

\* line 62, and the assignment of line 242
GetWordsReturn ==
    /\ pc = "get_words_loop"
    /\ widx > Len(words)
    /\ words_from_dict' = valid_words
    /\ first_result' = IF runs = 1 THEN valid_words ELSE first_result
    /\ words' = <<>>
    /\ widx' = 0
    /\ valid_words' = <<>>
    /\ letter_amounts' = <<>>
    /\ middle_letter' = ""
    /\ pc' = "input"
    /\ UNCHANGED <<grid, file, letters, runs, typed, eof, nread, user_words,
                   report, probe>>

\* the user enters a line
UserTypes ==
    /\ pc = "input"
    /\ ~eof
    /\ Len(typed) < MaxGuesses
    /\ \E w \in GuessVocabulary : typed' = Append(typed, w)
    /\ UNCHANGED <<pc, grid, file, letters, words, widx, valid_words,
                   letter_amounts, middle_letter, words_from_dict, runs,
                   first_result, eof, nread, user_words, report, probe>>

\* the user signals the end of the input
UserEOF ==
    /\ pc = "input"
    /\ ~eof
    /\ eof' = TRUE
    /\ UNCHANGED <<pc, grid, file, letters, words, widx, valid_words,
                   letter_amounts, middle_letter, words_from_dict, runs,
                   first_result, typed, nread, user_words, report, probe>>

\* line 130: input() returns the next line
InputLine ==
    /\ pc = "input"
    /\ nread < Len(typed)
    /\ user_words' = input_append(user_words, typed[nread + 1])
    /\ nread' = nread + 1
    /\ UNCHANGED <<pc, grid, file, letters, words, widx, valid_words,
                   letter_amounts, middle_letter, words_from_dict, runs,
                   first_result, typed, eof, report, probe>>

\* lines 131-132: input() raises EOFError, the loop returns user_words
InputEOF ==
    /\ pc = "input"
    /\ nread = Len(typed)
    /\ eof
    /\ pc' = "results"
    /\ UNCHANGED <<grid, file, letters, words, widx, valid_words,
                   letter_amounts, middle_letter, words_from_dict, runs,
                   first_result, typed, eof, nread, user_words, report, probe>>

\* line 244: results(grid, user_words, words_from_dict)
Results ==
    /\ pc = "results"
    /\ report' = results_report(grid, user_words, words_from_dict)
    /\ pc' = IF report'.raised THEN "error" ELSE "done"
    /\ UNCHANGED <<grid, file, letters, words, widx, valid_words,
                   letter_amounts, middle_letter, words_from_dict, runs,
                   first_result, typed, eof, nread, user_words, probe>>

Next ==
    \/ GenerateGrid
    \/ GetWordsEnter
    \/ GetWordsStep
    \/ GetWordsReturn
    \/ UserTypes
    \/ UserEOF
    \/ InputLine
    \/ InputEOF
    \/ Results

Spec == Init /\ [][Next]_vars

\* the input loop takes its turns: input() returns when a line or the end of
\* the input is there; the user need not enter anything
InputTurn == InputLine \/ InputEOF

\* the game on an empty dictionary file or one with a single line after the
\* header: the input loop does not read the dictionary
LiveFiles == {<<>>} \cup {text_of(<<xyz, xyz, xyz, w>>) : w \in DictVocabulary}

InitLive == Init /\ file \in LiveFiles

LiveSpec == InitLive /\ [][Next]_vars /\ WF_vars(InputTurn)

----------------------------------------------------------------------------
(* get_words called a second time on the same file and the same letters *)

CallAgain ==
    /\ pc = "input"
    /\ runs = 1
    /\ pc' = "get_words"
    /\ UNCHANGED <<grid, file, letters, words, widx, valid_words,
                   letter_amounts, middle_letter, words_from_dict, runs,
                   first_result, typed, eof, nread, user_words, report, probe>>

NextRerun ==
    \/ GenerateGrid
    \/ GetWordsEnter
    \/ GetWordsStep
    \/ GetWordsReturn
    \/ CallAgain

SpecRerun == Init /\ [][NextRerun]_vars

----------------------------------------------------------------------------
(* The two word tests on any grid and any word *)

InitTests ==
    /\ pc = "tests"
    /\ letters \in AllGrids
    /\ file = <<>>
    /\ grid = <<>>
    /\ words = <<>>
    /\ widx = 0
    /\ valid_words = <<>>
    /\ letter_amounts = <<>>
    /\ middle_letter = ""
    /\ words_from_dict = <<>>
    /\ runs = 0
    /\ first_result = <<>>
    /\ typed = <<>>
    /\ eof = FALSE
    /\ nread = 0
    /\ user_words = <<>>
    /\ report = NoReport
    /\ probe = NoProbe

\* one word through lines 49-60 and through lines 156-168
TestWord ==
    /\ pc = "tests"
    /\ pc' = "tested"
    /\ \E w \in AllWords :
          LET amounts == _get_letter_amounts(letters)
              middle  == letters[MiddleIndex]
          IN  probe' = [tested  |-> TRUE,
                        word    |-> w,
                        dict    |-> get_words_test(w, amounts, middle),
                        rule    |-> rule_test(w, amounts, middle),
                        unknown |-> user_words_test(w, amounts, middle, <<>>),
                        known   |-> user_words_test(w, amounts, middle, <<w>>)]
    /\ UNCHANGED <<grid, file, letters, words, widx, valid_words,
                   letter_amounts, middle_letter, words_from_dict, runs,
                   first_result, typed, eof, nread, user_words, report>>

NextTests == TestWord

SpecTests == InitTests /\ [][NextTests]_vars

----------------------------------------------------------------------------
(* _get_letter_amounts on any list of letters *)

InitCount ==
    /\ pc = "count"
    /\ letters \in SeqsUpTo(CountLettersOf, MaxLetters)
    /\ file = <<>>
    /\ grid = <<>>
    /\ words = <<>>
    /\ widx = 0
    /\ valid_words = <<>>
    /\ letter_amounts = <<>>
    /\ middle_letter = ""
    /\ words_from_dict = <<>>
    /\ runs = 0
    /\ first_result = <<>>
    /\ typed = <<>>
    /\ eof = FALSE
    /\ nread = 0
    /\ user_words = <<>>
    /\ report = NoReport
    /\ probe = NoProbe

CountLetters ==
    /\ pc = "count"
    /\ letter_amounts' = _get_letter_amounts(letters)
    /\ pc' = "counted"
    /\ UNCHANGED <<grid, file, letters, words, widx, valid_words,
                   middle_letter, words_from_dict, runs, first_result, typed,
                   eof, nread, user_words, report, probe>>

NextCount == CountLetters

SpecCount == InitCount /\ [][NextCount]_vars

----------------------------------------------------------------------------
(* The rule of the game, stated on the grid itself *)

LongEnough(w)      == Len(w) >= MinWordLen
OnlyGridLetters(w, G) == \A k \in 1..Len(w) : \E j \in 1..Len(G) : G[j] = w[k]
WithinGrid(w, G)   == \A k \in 1..Len(w) : Occ(w[k], w) <= Occ(w[k], G)
HasMiddle(w, G)    == \E k \in 1..Len(w) : w[k] = G[MiddleIndex]

FourConditions(w, G) ==
    LongEnough(w) /\ OnlyGridLetters(w, G) /\ WithinGrid(w, G) /\ HasMiddle(w, G)

Vocabulary == HeaderVocabulary \cup DictVocabulary \cup GuessVocabulary

\* the lines of the dictionary file and those after the header
FileLinesNow == splitlines(file)
Candidates   == SubSeq(FileLinesNow, HeaderLines + 1, Len(FileLinesNow))

\* get_words has returned to main
Returned == pc \in {"input", "results", "done"}

\* the subsequence of s whose members satisfy the four conditions on G
RECURSIVE Passing(_, _)
Passing(s, G) ==
    IF s = <<>> THEN <<>>
    ELSE (IF FourConditions(s[1], G) THEN <<s[1]>> ELSE <<>>) \o Passing(Tail(s), G)

----------------------------------------------------------------------------
(* Claims *)

\* C1: get_words accepts a word if and only if it has at least four
\* characters, every character occurs in the grid, no character occurs more
\* often in the word than in the grid, and the middle letter occurs in it;
\* a word failing any one condition is rejected.
C1_AcceptedIffFourConditions ==
    probe.tested =>
        /\ (probe.dict = "accepted") <=> FourConditions(probe.word, letters)
        /\ ~FourConditions(probe.word, letters) => probe.dict = "rejected"

\* an accepted word that uses some letter as often as the grid holds it
C1_Witness ==
    /\ probe.tested
    /\ probe.dict = "accepted"
    /\ \E k \in 1..Len(probe.word) :
          Occ(probe.word[k], probe.word) = Occ(probe.word[k], letters)

\* C2: _get_letter_amounts returns exactly one pair per distinct letter of
\* the list, with the number of its occurrences as count; the counts sum to
\* the length of the list, no count is 0 and no key is absent from the list.
C2_OnePairPerLetter ==
    pc = "counted" =>
        /\ \A c \in CountLettersOf :
              Cardinality({i \in 1..Len(letter_amounts) : letter_amounts[i][1] = c})
                  = IF c \in Range(letters) THEN 1 ELSE 0
        /\ \A i \in 1..Len(letter_amounts) :
              /\ letter_amounts[i][1] \in Range(letters)
              /\ letter_amounts[i][2] = Occ(letter_amounts[i][1], letters)
              /\ letter_amounts[i][2] > 0
        /\ SumCounts(letter_amounts) = Len(letters)

\* a list of nine letters, three of them distinct, one of them repeated
C2_Witness ==
    /\ pc = "counted"
    /\ Len(letters) = GridSide * GridSide
    /\ Len(letter_amounts) = 3
    /\ \E i \in 1..Len(letter_amounts) : letter_amounts[i][2] >= 3

\* C3: the unknown user words of the report are exactly the guesses that
\* satisfy the four conditions and are not in words_from_dict; no word of
\* them is in words_from_dict and none is not a guess.
C3_UnknownIffValidAndNotInDict ==
    report.written =>
        \A u \in Vocabulary :
            (u \in Range(report.unknown))
                <=> /\ u \in Range(user_words)
                    /\ FourConditions(u, flatten(grid))
                    /\ u \notin Range(words_from_dict)

\* one guess is a dictionary word, the other is valid and unknown
C3_Witness ==
    /\ report.written
    /\ report.unknown = <<ming>>
    /\ stem \in Range(user_words)
    /\ stem \in Range(words_from_dict)

\* C4 as stated: every word appears at most once in the result of get_words.
C4_NoWordTwice ==
    Returned =>
        \A i, j \in 1..Len(words_from_dict) :
            words_from_dict[i] = words_from_dict[j] => i = j

\* C4 as amended: the result of get_words is the sequence of the passing
\* lines after the header, in file order, one entry per line: a passing word
\* appears as often as it occurs on the lines after the header.
C4_OneEntryPerPassingLine ==
    Returned => words_from_dict = Passing(Candidates, flatten(grid))

\* a passing word that stands on two lines is in the result twice
C4_Witness ==
    /\ Returned
    /\ \E i, j \in 1..Len(words_from_dict) :
          i # j /\ words_from_dict[i] = words_from_dict[j]

\* C5: neither word test ever raises: every string gets "accepted" or
\* "rejected", and the empty string, a string of fewer than four characters
\* and a string with a character that is not in the grid get "rejected".
C5_NoErrorOnAnyString ==
    probe.tested =>
        /\ probe.dict \in {"accepted", "rejected"}
        /\ probe.unknown \in {"accepted", "rejected"}
        /\ probe.known \in {"accepted", "rejected"}
        /\ (Len(probe.word) < MinWordLen \/ ~OnlyGridLetters(probe.word, letters))
              => probe.dict = "rejected" /\ probe.unknown = "rejected"

\* a long enough word with a character that is no letter of the grid
C5_Witness ==
    /\ probe.tested
    /\ Len(probe.word) >= MinWordLen
    /\ "-" \in Range(probe.word)
    /\ probe.dict = "rejected"
    /\ probe.unknown = "rejected"

\* C6: a second call of get_words on the same file and the same letters
\* returns what the first returned; no call changes the letter list, and the
\* letter amounts stay those of the grid during the loop.
C6_SecondCallSameResult ==
    /\ pc # "start" => letters = flatten(grid)
    /\ pc = "get_words_loop" => letter_amounts = _get_letter_amounts(flatten(grid))
    /\ (runs = 2 /\ pc = "input") => words_from_dict = first_result

\* the second call has returned a result that is not empty
C6_Witness ==
    /\ runs = 2
    /\ pc = "input"
    /\ words_from_dict # <<>>

\* C7: the forgotten words are exactly the words of words_from_dict that are
\* no guess, so each word of words_from_dict is either forgotten or guessed;
\* the number of correct words is the number of guesses in words_from_dict.
C7_ForgottenAndCorrect ==
    report.written =>
        /\ \A w \in Range(words_from_dict) :
              (w \in Range(report.forgotten)) <=> (w \notin Range(user_words))
        /\ Range(report.forgotten) \subseteq Range(words_from_dict)
        /\ report.correct
              = Cardinality({i \in 1..Len(user_words) :
                               user_words[i] \in Range(words_from_dict)})

\* the same dictionary word was guessed twice and another one was forgotten
C7_Witness ==
    /\ report.written
    /\ report.forgotten # <<>>
    /\ report.correct = 2
    /\ Len(words_from_dict) = 2
    /\ user_words[1] = user_words[2]

\* C8: no line of the header is a candidate: every word of the result
\* stands on a line after the third, every passing line after the third is
\* in the result, and a file of three or fewer lines gives the empty result
\* and no error.
C8_HeaderExcluded ==
    /\ pc # "error"
    /\ Returned =>
        LET lines == FileLinesNow
            G     == flatten(grid)
            found == Range(words_from_dict)
        IN  /\ \A w \in found :
                  \E i \in (HeaderLines + 1)..Len(lines) : lines[i] = w
            /\ \A i \in (HeaderLines + 1)..Len(lines) :
                  FourConditions(lines[i], G) => lines[i] \in found
            /\ Len(lines) <= HeaderLines => words_from_dict = <<>>

\* a passing word stands in the header only, another one after it
C8_Witness ==
    /\ Returned
    /\ words_from_dict # <<>>
    /\ LET lines == FileLinesNow
       IN  \E i \in 1..HeaderLines :
               /\ i <= Len(lines)
               /\ FourConditions(lines[i], flatten(grid))
               /\ lines[i] \notin Range(words_from_dict)

\* C9: once the user has signalled the end of the input the loop returns;
\* no error is raised; what it returns is the lines entered, in order; and
\* the report is written only after the loop has returned.
C9_InputLoopReturns ==
    /\ [](pc # "error")
    /\ [](pc \in {"results", "done"} => eof /\ user_words = typed)
    /\ [](report.written => pc = "done" /\ nread = Len(typed))
    /\ ((pc = "input" /\ eof) ~> (pc \in {"results", "done"}))

\* the loop has returned two lines, one of them empty
C9_Witness ==
    /\ pc = "results"
    /\ Len(user_words) = 2
    /\ <<>> \in Range(user_words)
    /\ user_words[1] # user_words[2]

\* C10: the two word tests agree on every word; no unknown user word stands
\* on a line after the header; every guess is in exactly one class: counted
\* as correct, listed as unknown, or against the rule.
C10_TestsAgree ==
    /\ pc = "get_words" =>
          \A w \in Vocabulary :
              get_words_test(w, _get_letter_amounts(letters), letters[MiddleIndex])
                  = rule_test(w, _get_letter_amounts(letters), letters[MiddleIndex])
    /\ report.written =>
          /\ \A u \in Range(report.unknown) : u \notin Range(Candidates)
          /\ \A k \in 1..Len(user_words) :
                LET u == user_words[k]
                    correct == u \in Range(words_from_dict)
                    unknown == u \in Range(report.unknown)
                    invalid == ~FourConditions(u, flatten(grid))
                IN  /\ correct \/ unknown \/ invalid
                    /\ ~(correct /\ unknown)
                    /\ ~(correct /\ invalid)
                    /\ ~(unknown /\ invalid)

\* one guess of each of two classes, the dictionary holding a passing word
C10_Witness ==
    /\ report.written
    /\ report.correct = 1
    /\ Len(report.unknown) = 1
    /\ Len(user_words) = 2

\* the two word tests give the same answer on any grid and any word
TestsAgreeOnAnyWord == probe.tested => probe.dict = probe.rule

\* the game never ends in an error
NoErrorInGame == pc # "error"

====
